---- MODULE Spec2Model ----
(***************************************************************************)
(* A model of GradeAnalyzer (grade_analyzer.py): the record store filled   *)
(* by load_data from a comma-separated text file, and the queries computed *)
(* over it.                                                                *)
(*                                                                         *)
(* Python values are modelled as follows.                                  *)
(*   str    a tuple of one-character strings (so that strip, split and     *)
(*          int() are computed character by character)                     *)
(*   None   the record None                                                *)
(*   int    PyInt(i);  bool  PyBool(b);  list  PyList(s);  str  PyStr(s)   *)
(*   float  PyFloat(n, d), the exact quotient n/d.  Every float of the     *)
(*          model is one true division of two small integers, which Python *)
(*          rounds correctly, so that comparing two of them, or one with   *)
(*          an integer, agrees with comparing the exact quotients.         *)
(***************************************************************************)
EXTENDS Integers, Sequences, FiniteSets, TLC

\* The number of data lines (after the header) of a source file made of
\* LineChoices; the two files of ExampleTexts have three and four.
MaxLines == 2

VARIABLES
  _students,   \* self._students: the record store, a list of student dicts
  _loaded,     \* self._loaded: Load State
  call,        \* the last public operation called, with its arguments (for
               \* load_data: the source file as that attempt found it), or
               \* what the caller did to the value it was handed
  ret          \* what that call returned

vars == <<_students, _loaded, call, ret>>

----------------------------------------------------------------------------
(* Python values *)

None == [t |-> "None"]
PyInt(i) == [t |-> "int", v |-> i]
PyBool(b) == [t |-> "bool", v |-> b]
PyStr(s) == [t |-> "str", v |-> s]
PyList(s) == [t |-> "list", v |-> s]
PyDict(f) == [t |-> "dict", v |-> f]
PyTuple(s) == [t |-> "tuple", v |-> s]
PyFloat(n, d) == [t |-> "float", num |-> n, den |-> d]

\* isinstance(x, (int, float)); bool is a subclass of int.
IsNumber(x) == x.t \in {"int", "float", "bool"}

\* A number as the exact fraction Num(x) / Den(x), Den(x) > 0.
Num(x) == CASE x.t = "int" -> x.v
            [] x.t = "bool" -> (IF x.v THEN 1 ELSE 0)
            [] x.t = "float" -> x.num
Den(x) == IF x.t = "float" THEN x.den ELSE 1

\* Python's <, >=, == on two numbers.
Lt(x, y) == Num(x) * Den(y) < Num(y) * Den(x)
Ge(x, y) == ~Lt(x, y)
NumEq(x, y) == Num(x) * Den(y) = Num(y) * Den(x)

\* a / b, Python's true division of two integers (b > 0 wherever it is used).
TrueDiv(a, b) == PyFloat(a, b)

----------------------------------------------------------------------------
(* Text: str.strip(), str.split(','), int(str) *)

DigitChars == <<"0", "1", "2", "3", "4", "5", "6", "7", "8", "9">>
IsDigit(c) == \E i \in 1..Len(DigitChars) : DigitChars[i] = c
DigitVal(c) == (CHOOSE i \in 1..Len(DigitChars) : DigitChars[i] = c) - 1
IsSpace(c) == c \in {" ", "\t", "\n", "\r"}

RECURSIVE lstrip(_)
lstrip(s) == IF s # <<>> /\ IsSpace(Head(s)) THEN lstrip(Tail(s)) ELSE s

RECURSIVE rstrip(_)
rstrip(s) == IF s # <<>> /\ IsSpace(s[Len(s)])
             THEN rstrip(SubSeq(s, 1, Len(s) - 1)) ELSE s

\* str.strip(): leading and trailing whitespace removed.
strip(s) == rstrip(lstrip(s))

\* str.split(sep): the pieces between the separators; always at least one
\* piece ("".split(",") is [""]).
RECURSIVE split(_, _)
split(s, sep) ==
  IF \E i \in 1..Len(s) : s[i] = sep
  THEN LET i == CHOOSE k \in 1..Len(s) :
                  s[k] = sep /\ \A j \in 1..(k - 1) : s[j] # sep
       IN  <<SubSeq(s, 1, i - 1)>> \o split(SubSeq(s, i + 1, Len(s)), sep)
  ELSE <<s>>

\* The value of a non-empty string of decimal digits.
RECURSIVE DigitsValue(_)
DigitsValue(s) ==
  IF Len(s) = 1 THEN DigitVal(s[1])
  ELSE 10 * DigitsValue(SubSeq(s, 1, Len(s) - 1)) + DigitVal(s[Len(s)])

\* int(s): surrounding whitespace is ignored, then an optional sign and at
\* least one decimal digit; anything else raises ValueError (ok = FALSE).
\* (The files of the model hold no "_" digit separators.)
int(s) ==
  LET b == strip(s)
      signed == b # <<>> /\ b[1] \in {"+", "-"}
      digits == IF signed THEN Tail(b) ELSE b
  IN  IF digits # <<>> /\ \A i \in 1..Len(digits) : IsDigit(digits[i])
      THEN [ok |-> TRUE,
            v |-> IF signed /\ b[1] = "-" THEN 0 - DigitsValue(digits)
                  ELSE DigitsValue(digits)]
      ELSE [ok |-> FALSE, v |-> 0]

----------------------------------------------------------------------------
(* The engine's constants *)

\* self._subjects, in catalog order.
_subjects == <<"Math", "Physics", "Chemistry", "Biology", "English">>
SubjectSet == {_subjects[i] : i \in 1..Len(_subjects)}

\* The number of comma-separated fields of a data line.
NumFields == 7

----------------------------------------------------------------------------
(* The source files of the model *)

\* The decimal text of a natural number, and of an integer.
RECURSIVE DecNat(_)
DecNat(n) == IF n < 10 THEN <<DigitChars[n + 1]>>
             ELSE DecNat(n \div 10) \o <<DigitChars[(n % 10) + 1]>>
Dec(n) == IF n < 0 THEN <<"-">> \o DecNat(0 - n) ELSE DecNat(n)

\* The fields joined by commas.
RECURSIVE Join(_)
Join(fs) == IF Len(fs) = 0 THEN <<>>
            ELSE IF Len(fs) = 1 THEN fs[1]
            ELSE fs[1] \o <<",">> \o Join(Tail(fs))

Row(id, name, g) == Join(<<id, name>> \o [i \in 1..Len(g) |-> Dec(g[i])])

HeaderLine == Join(<<<<"i", "d">>, <<"n">>, <<"M">>, <<"P">>, <<"C">>, <<"B">>, <<"E">>>>)

\* The lines a file is made of: well-formed rows (two of equal average under
\* different ids, one id on two rows, averages of exactly 90, 89.8 and 59.8,
\* scores outside 0..100, whitespace, a sign and a leading zero around the
\* numbers), a row of six fields and a row with a score that is no integer.
LineChoices ==
  { Row(<<"S", "1">>, <<"A">>, <<90, 90, 90, 90, 90>>),
    Row(<<"S", "2">>, <<"B">>, <<90, 90, 90, 90, 90>>),
    Row(<<"S", "1">>, <<"C">>, <<60, 60, 60, 60, 59>>),
    Row(<<"S", "3">>, <<"D">>, <<105, -5, 50, 50, 50>>),
    <<" ">> \o Join(<<<<"S", "4">>, <<"E">>, <<" ", "8", "9">>, <<"+", "9", "0">>,
                      <<"9", "0", " ">>, <<"0", "9", "0">>, <<"9", "0">>>>) \o <<" ">>,
    Join(<<<<"S", "5">>, <<"F">>, <<"1">>, <<"2">>, <<"3">>, <<"4">>>>),
    Join(<<<<"S", "5">>, <<"F">>, <<"1">>, <<"2">>, <<"x">>, <<"4">>, <<"5">>>>) }

RECURSIVE SeqsUpTo(_, _)
SeqsUpTo(S, n) ==
  IF n = 0 THEN {<<>>}
  ELSE LET shorter == SeqsUpTo(S, n - 1)
       IN  shorter \cup {Append(s, x) : s \in shorter, x \in S}

\* What one load_data attempt can find:
\*   missing  no such file (open raises FileNotFoundError)
\*   denied   the file cannot be opened (open raises another OSError)
\*   text     the file is read to its end; lines are all its lines, the
\*            header first; no lines at all is the empty file
\* A class of four whose Math scores are out of order, whose Biology scores
\* are all equal and whose other scores vary; a file holds its first three
\* rows, or all four.
ExampleRows ==
  << Row(<<"T", "1">>, <<"G">>, <<70, 65, 80, 75, 60>>),
     Row(<<"T", "2">>, <<"H">>, <<50, 55, 90, 75, 70>>),
     Row(<<"T", "3">>, <<"I">>, <<60, 85, 70, 75, 95>>),
     Row(<<"T", "4">>, <<"J">>, <<80, 75, 60, 75, 65>>) >>
ExampleTexts ==
  { <<HeaderLine>> \o SubSeq(ExampleRows, 1, 3), <<HeaderLine>> \o ExampleRows }

Texts ==
  {<<>>} \cup {<<HeaderLine>> \o d : d \in SeqsUpTo(LineChoices, MaxLines)}
  \cup ExampleTexts
Files ==
  {[kind |-> "missing", lines |-> <<>>], [kind |-> "denied", lines |-> <<>>]}
  \cup {[kind |-> "text", lines |-> ls] : ls \in Texts}

----------------------------------------------------------------------------
(* load_data *)

\* parse_student_line without the last subject: a grades dict of four entries.
parse_student_line_without_english(line) ==
  LET parts == split(strip(line), ",")
  IN  IF Len(parts) # NumFields THEN None
      ELSE IF \E i \in 3..NumFields : ~int(parts[i]).ok THEN None
      ELSE [id |-> parts[1],
            name |-> parts[2],
            grades |-> [s \in SubjectSet \ {"English"} |->
                          int(parts[2 + CHOOSE i \in 1..Len(_subjects) : _subjects[i] = s]).v]]

\* parse_student_line(line): the student dict of a line, None for a line that
\* has not exactly 7 fields or a score int() rejects.
parse_student_line(line) ==
  LET parts == split(strip(line), ",")
  IN  IF Len(parts) # NumFields THEN None
      ELSE IF \E i \in 3..NumFields : ~int(parts[i]).ok THEN None
      ELSE [id |-> parts[1],
            name |-> parts[2],
            grades |-> [s \in SubjectSet |->
                          int(parts[2 + CHOOSE i \in 1..Len(_subjects) : _subjects[i] = s]).v]]

\* parse_student_line on each line a file of the model can hold, computed once.
ParsedLine ==
  [l \in LineChoices \cup {HeaderLine} \cup {ExampleRows[i] : i \in 1..Len(ExampleRows)}
    |-> parse_student_line(l)]

\* The for loop of load_data: the records of the lines that parse, in order.
RECURSIVE ParsedLines(_)
ParsedLines(ls) ==
  IF ls = <<>> THEN <<>>
  ELSE LET student == ParsedLine[Head(ls)]
       IN  (IF student # None THEN <<student>> ELSE <<>>) \o ParsedLines(Tail(ls))

\* load_data() when the file is f.
load_data(f) ==
  /\ call' = <<"load_data", f>>
  /\ ret' = None
  /\ CASE f.kind = "missing" ->
            \* open raises FileNotFoundError: the handler only prints
            UNCHANGED <<_students, _loaded>>
       [] f.kind = "denied" ->
            \* open raises another exception: the handler sets _loaded
            /\ _loaded' = FALSE
            /\ UNCHANGED _students
       [] f.kind = "text" /\ f.lines = <<>> ->
            \* both fields are reset, then next(file) raises StopIteration
            /\ _students' = <<>>
            /\ _loaded' = FALSE
       [] f.kind = "text" /\ f.lines # <<>> ->
            /\ _students' = ParsedLines(Tail(f.lines))
            /\ _loaded' = TRUE

LoadData == \E f \in Files : load_data(f)

----------------------------------------------------------------------------
(* Validators *)

\* check_data_loaded()
check_data_loaded == _loaded

\* validate_student_id(student_id): the first record of the store with that
\* id, None for an id that is no string or that no record carries.
validate_student_id(student_id) ==
  IF student_id.t # "str" THEN None
  ELSE IF \E i \in 1..Len(_students) : _students[i].id = student_id.v
       THEN _students[CHOOSE i \in 1..Len(_students) :
                        /\ _students[i].id = student_id.v
                        /\ \A j \in 1..(i - 1) : _students[j].id # student_id.v]
       ELSE None

\* validate_course_name(course_name): the name when it is a string of the
\* catalog, None otherwise.
validate_course_name(course_name) ==
  IF course_name.t # "str" THEN None
  ELSE IF course_name.v \notin SubjectSet THEN None
  ELSE course_name

\* isinstance(threshold, (int, float)) and 0 <= threshold <= 100, the test
\* of is_student_passing, get_struggling_students and convert_to_letter_grade.
InRange(x) == IsNumber(x) /\ ~Lt(x, PyInt(0)) /\ ~Lt(PyInt(100), x)

----------------------------------------------------------------------------
(* Per-student queries *)

\* student['grades'].items(): the (subject, score) pairs in the order the
\* dict was built, which is the catalog's.
GradeItems(student) ==
  [i \in 1..Len(_subjects) |-> <<_subjects[i], student.grades[_subjects[i]]>>]

\* sum(student['grades'].values())
RECURSIVE SumInts(_)
SumInts(s) == IF s = <<>> THEN 0 ELSE Head(s) + SumInts(Tail(s))
GradeSum(student) == SumInts([i \in 1..Len(_subjects) |-> student.grades[_subjects[i]]])

\* calculate_student_average(student_id)
calculate_student_average(student_id) ==
  IF ~check_data_loaded THEN None
  ELSE LET student == validate_student_id(student_id)
       IN  IF student = None THEN None
           ELSE TrueDiv(GradeSum(student), Len(_subjects))

\* max(items, key=score) and min(items, key=score): the first item that no
\* item exceeds (is below).
get_student_highest_score(student_id) ==
  IF ~check_data_loaded THEN None
  ELSE LET student == validate_student_id(student_id)
       IN  IF student = None THEN None
           ELSE LET items == GradeItems(student)
                    k == CHOOSE i \in 1..Len(items) :
                           /\ \A j \in 1..Len(items) : items[j][2] <= items[i][2]
                           /\ \A j \in 1..(i - 1) : items[j][2] < items[i][2]
                IN  PyTuple(items[k])

get_student_lowest_score(student_id) ==
  IF ~check_data_loaded THEN None
  ELSE LET student == validate_student_id(student_id)
       IN  IF student = None THEN None
           ELSE LET items == GradeItems(student)
                    k == CHOOSE i \in 1..Len(items) :
                           /\ \A j \in 1..Len(items) : items[j][2] >= items[i][2]
                           /\ \A j \in 1..(i - 1) : items[j][2] > items[i][2]
                IN  PyTuple(items[k])

\* is_student_passing with average > threshold: an average equal to the
\* threshold fails.
is_student_passing_strict(student_id, threshold) ==
  IF ~check_data_loaded THEN PyBool(FALSE)
  ELSE IF validate_student_id(student_id) = None THEN None
  ELSE IF ~InRange(threshold) THEN None
  ELSE LET average == calculate_student_average(student_id)
       IN  PyBool(average # None /\ Lt(threshold, average))

\* is_student_passing(student_id, threshold)
is_student_passing(student_id, threshold) ==
  IF ~check_data_loaded THEN PyBool(FALSE)
  ELSE IF validate_student_id(student_id) = None THEN None
  ELSE IF ~InRange(threshold) THEN None
  ELSE LET average == calculate_student_average(student_id)
       IN  PyBool(average # None /\ Ge(average, threshold))

\* get_student_info(student_id): the text, as the pieces the f-strings join.
get_student_info(student_id) ==
  IF ~check_data_loaded THEN None
  ELSE LET student == validate_student_id(student_id)
       IN  IF student = None THEN None
           ELSE LET items == GradeItems(student)
                IN  PyStr(<<"Student ID: ", student.id, "\nName: ", student.name,
                            "\nGrades:\n">>
                          \o [i \in 1..Len(items) |->
                                <<"  ", items[i][1], ": ", Dec(items[i][2]), "\n">>])

\* convert_to_letter_grade(score)
grades == <<<<90, "A">>, <<80, "B">>, <<70, "C">>, <<60, "D">>, <<50, "E">>>>
\* convert_to_letter_grade with score > threshold: a boundary falls into the
\* lower band.
convert_to_letter_grade_strict(score) ==
  IF ~InRange(score) THEN None
  ELSE IF \E i \in 1..Len(grades) : Lt(PyInt(grades[i][1]), score)
       THEN PyStr(grades[CHOOSE i \in 1..Len(grades) :
                           /\ Lt(PyInt(grades[i][1]), score)
                           /\ \A j \in 1..(i - 1) : ~Lt(PyInt(grades[j][1]), score)][2])
       ELSE PyStr("F")

\* convert_to_letter_grade with the bands tried from the lowest up: the first
\* match is the lowest band the score reaches.
convert_to_letter_grade_low_to_high(score) ==
  IF ~InRange(score) THEN None
  ELSE IF \E i \in 1..Len(grades) : Ge(score, PyInt(grades[i][1]))
       THEN PyStr(grades[CHOOSE i \in 1..Len(grades) :
                           /\ Ge(score, PyInt(grades[i][1]))
                           /\ \A j \in (i + 1)..Len(grades) : ~Ge(score, PyInt(grades[j][1]))][2])
       ELSE PyStr("F")

convert_to_letter_grade(score) ==
  IF ~InRange(score) THEN None
  ELSE IF \E i \in 1..Len(grades) : Ge(score, PyInt(grades[i][1]))
       THEN PyStr(grades[CHOOSE i \in 1..Len(grades) :
                           /\ Ge(score, PyInt(grades[i][1]))
                           /\ \A j \in 1..(i - 1) : ~Ge(score, PyInt(grades[j][1]))][2])
       ELSE PyStr("F")

----------------------------------------------------------------------------
(* sorted() and list.sort() *)

NaN == [t |-> "nan"]

\* a/b < c/d for naturals a, c and positive b, d, by comparing the continued
\* fractions (no product is formed).
RECURSIVE FracLt(_, _, _, _)
FracLt(a, b, c, d) ==
  IF a \div b # c \div d THEN a \div b < c \div d
  ELSE IF c % d = 0 THEN FALSE
  ELSE IF a % b = 0 THEN TRUE
  ELSE FracLt(d, c % d, b, a % b)

\* x < y on the sort keys; every comparison with a NaN is false.  The key
\* abs(corr) is kept as the square [t |-> "sq", num, den] of the magnitude.
KeyLt(x, y) ==
  /\ x.t # "nan" /\ y.t # "nan"
  /\ IF x.t = "sq" THEN FracLt(x.num, x.den, y.num, y.den) ELSE Lt(x, y)

Reverse(s) == [i \in 1..Len(s) |-> s[Len(s) + 1 - i]]

\* list.sort on a list of fewer than 64 elements, as CPython 3.11 does it: the
\* run the list starts with (strictly descending, then reversed, or else
\* non-descending) is kept, and each later element is put into it at the
\* place a binary search finds.  With keys that are totally ordered this is
\* the stable ascending sort; with a NaN among the keys the result depends
\* on which comparisons are made, and these are the ones made.

\* The place of x in the sorted list a: the binary search of binarysort.
RECURSIVE Bisect(_, _, _, _)
Bisect(a, x, l, r) ==
  IF l >= r THEN l
  ELSE LET p == l + ((r - l) \div 2)
       IN  IF KeyLt(x.k, a[p + 1].k) THEN Bisect(a, x, l, p) ELSE Bisect(a, x, p + 1, r)

InsertKeyed(a, x) ==
  LET l == Bisect(a, x, 0, Len(a))
  IN  SubSeq(a, 1, l) \o <<x>> \o SubSeq(a, l + 1, Len(a))

\* count_run: the length of the run s starts with and whether it descends.
CountRun(s) ==
  IF Len(s) <= 1 THEN [n |-> Len(s), descending |-> FALSE]
  ELSE LET descending == KeyLt(s[2].k, s[1].k)
           Goes(i) == KeyLt(s[i].k, s[i - 1].k) = descending
       IN  [n |-> CHOOSE m \in 2..Len(s) :
                    /\ \A i \in 3..m : Goes(i)
                    /\ m < Len(s) => ~Goes(m + 1),
            descending |-> descending]

\* binarysort: the elements of rest put into the sorted list a one by one.
RECURSIVE InsertAll(_, _)
InsertAll(a, rest) ==
  IF rest = <<>> THEN a ELSE InsertAll(InsertKeyed(a, Head(rest)), Tail(rest))

\* A list of [k |-> key, e |-> element] sorted by key, ascending.
SortKeyed(s) ==
  LET run == CountRun(s)
      head == SubSeq(s, 1, run.n)
  IN  InsertAll(IF run.descending THEN Reverse(head) ELSE head,
                SubSeq(s, run.n + 1, Len(s)))

Elements(s) == [i \in 1..Len(s) |-> s[i].e]

\* sorted(s, key=...): ascending.  With reverse=True the list is reversed,
\* sorted ascending and reversed again, which keeps equal keys in their order.
sorted(s) == Elements(SortKeyed(s))
sorted_reverse(s) == Reverse(Elements(SortKeyed(Reverse(s))))

----------------------------------------------------------------------------
(* Per-course queries *)

\* get_course_scores(course_name)
get_course_scores(course_name) ==
  IF ~check_data_loaded THEN PyList(<<>>)
  ELSE IF validate_course_name(course_name) = None THEN PyList(<<>>)
  ELSE PyList([i \in 1..Len(_students) |-> _students[i].grades[course_name.v]])

\* calculate_course_average with the sentinel of the student queries: None,
\* not 0, when there is nothing to average.
calculate_course_average_none(course_name) ==
  IF ~check_data_loaded THEN None
  ELSE IF validate_course_name(course_name) = None THEN None
  ELSE LET scores == get_course_scores(course_name).v
       IN  IF scores # <<>> THEN TrueDiv(SumInts(scores), Len(scores)) ELSE None

\* calculate_course_average(course_name)
calculate_course_average(course_name) ==
  IF ~check_data_loaded THEN PyInt(0)
  ELSE IF validate_course_name(course_name) = None THEN PyInt(0)
  ELSE LET scores == get_course_scores(course_name).v
       IN  IF scores # <<>> THEN TrueDiv(SumInts(scores), Len(scores)) ELSE PyInt(0)

\* find_course_median on the scores as stored, without sorted().
find_course_median_unsorted(course_name) ==
  LET scores == get_course_scores(course_name).v
      n == Len(scores)
      mid == n \div 2
  IN  IF n = 0 THEN None
      ELSE IF n % 2 # 0 THEN PyInt(scores[mid + 1])
      ELSE TrueDiv(scores[mid] + scores[mid + 1], 2)

\* find_course_median(course_name)
find_course_median(course_name) ==
  LET unsorted == get_course_scores(course_name).v
      scores == sorted([i \in 1..Len(unsorted) |-> [k |-> PyInt(unsorted[i]), e |-> unsorted[i]]])
      n == Len(scores)
      mid == n \div 2
  IN  IF n = 0 THEN None
      ELSE IF n % 2 # 0 THEN PyInt(scores[mid + 1])
      ELSE TrueDiv(scores[mid] + scores[mid + 1], 2)

\* get_course_grade_distribution(course_name).  A score convert_to_letter_grade
\* gives no letter makes distribution[None] += 1 raise KeyError, which the
\* handler turns into the empty dict.
Letters == {"A", "B", "C", "D", "E", "F"}
EmptyDict == PyDict([k \in {} |-> 0])
get_course_grade_distribution(course_name) ==
  IF ~check_data_loaded THEN EmptyDict
  ELSE IF validate_course_name(course_name) = None THEN EmptyDict
  ELSE LET scores == get_course_scores(course_name).v
           letter(i) == convert_to_letter_grade(PyInt(scores[i]))
       IN  IF \E i \in 1..Len(scores) : letter(i) = None \/ letter(i).v \notin Letters
           THEN EmptyDict
           ELSE PyDict([l \in Letters |->
                          Cardinality({i \in 1..Len(scores) : letter(i).v = l})])

\* max(scores, default=0) and min(scores, default=0)
MaxOf(scores) == IF scores = <<>> THEN 0
                 ELSE CHOOSE m \in {scores[i] : i \in 1..Len(scores)} :
                        \A i \in 1..Len(scores) : scores[i] <= m
MinOf(scores) == IF scores = <<>> THEN 0
                 ELSE CHOOSE m \in {scores[i] : i \in 1..Len(scores)} :
                        \A i \in 1..Len(scores) : scores[i] >= m

\* get_course_statistics(course_name)
get_course_statistics(course_name) ==
  IF ~check_data_loaded THEN None
  ELSE IF validate_course_name(course_name) = None THEN None
  ELSE PyDict([average |-> calculate_course_average(course_name),
               median |-> find_course_median(course_name),
               highest |-> PyInt(MaxOf(get_course_scores(course_name).v)),
               lowest |-> PyInt(MinOf(get_course_scores(course_name).v)),
               distribution |-> get_course_grade_distribution(course_name)])

----------------------------------------------------------------------------
(* Ranking and segmentation *)

\* rank_courses_by_difficulty()
rank_courses_by_difficulty ==
  IF ~check_data_loaded THEN PyList(<<>>)
  ELSE LET averages == [i \in 1..Len(_subjects) |->
                          <<_subjects[i], calculate_course_average(PyStr(_subjects[i]))>>]
       IN  PyList(sorted([i \in 1..Len(averages) |->
                            [k |-> averages[i][2], e |-> averages[i]]]))

\* rank_students_by_average(): each record's id with the average that
\* calculate_student_average finds for that id.
rank_students_by_average ==
  IF ~check_data_loaded THEN PyList(<<>>)
  ELSE LET averages == [i \in 1..Len(_students) |->
                          <<_students[i].id,
                            calculate_student_average(PyStr(_students[i].id))>>]
       IN  PyList(sorted_reverse([i \in 1..Len(averages) |->
                                    [k |-> averages[i][2], e |-> averages[i]]]))

\* get_top_performers(n)
get_top_performers(n) ==
  IF ~check_data_loaded THEN PyList(<<>>)
  ELSE IF n.t # "int" \/ n.v <= 0 THEN PyList(<<>>)
  ELSE LET ranking == rank_students_by_average.v
       IN  PyList(SubSeq(ranking, 1, IF n.v < Len(ranking) THEN n.v ELSE Len(ranking)))

\* The list comprehension of get_struggling_students over the records s: a
\* record is kept when the average calculate_student_average finds for its id
\* is below the threshold.
RECURSIVE StudentsBelow(_, _)
StudentsBelow(s, threshold) ==
  IF s = <<>> THEN <<>>
  ELSE (IF Lt(calculate_student_average(PyStr(Head(s).id)), threshold)
        THEN <<Head(s)>> ELSE <<>>) \o StudentsBelow(Tail(s), threshold)

\* get_struggling_students(threshold)
get_struggling_students(threshold) ==
  IF ~check_data_loaded THEN PyList(<<>>)
  ELSE IF ~InRange(threshold) THEN PyList(<<>>)
  ELSE PyList(StudentsBelow(_students, threshold))

\* get_student_count()
get_student_count == IF ~check_data_loaded THEN PyInt(0) ELSE PyInt(Len(_students))

----------------------------------------------------------------------------
(* Report assembly and correlation *)

\* calculate_class_statistics()
calculate_class_statistics ==
  IF ~check_data_loaded THEN None
  ELSE PyDict([top_performers |-> get_top_performers(PyInt(5)),
               struggling_students |-> get_struggling_students(PyInt(60)),
               subject_statistics |->
                 [s \in SubjectSet |-> get_course_statistics(PyStr(s))],
               student_count |-> PyInt(Len(_students))])

RECURSIVE Gcd(_, _)
Gcd(a, b) == IF b = 0 THEN a ELSE Gcd(b, a % b)
Abs(a) == IF a < 0 THEN 0 - a ELSE a

\* The sum over i < j of (xs[i] - xs[j]) * (ys[i] - ys[j]): n times the sum of
\* the products of the deviations from the means.
CoSum(xs, ys) ==
  LET P == {<<i, j>> \in (1..Len(xs)) \X (1..Len(xs)) : i < j}
      RECURSIVE Sum(_)
      Sum(Q) == IF Q = {} THEN 0
                ELSE LET q == CHOOSE q \in Q : TRUE
                     IN  (xs[q[1]] - xs[q[2]]) * (ys[q[1]] - ys[q[2]]) + Sum(Q \ {q})
  IN  Sum(P)

\* float(np.corrcoef(xs, ys)[0, 1]), Pearson's r = cxy / sqrt(cxx * cyy), kept
\* exactly as its sign and its square in lowest terms; NaN when either list
\* has no variance (fewer than two scores, or all equal).  The rounding of
\* the floating-point evaluation is not modelled.
corrcoef(xs, ys) ==
  LET cxy == CoSum(xs, ys)
      cxx == CoSum(xs, xs)
      cyy == CoSum(ys, ys)
      g1 == Gcd(Abs(cxy), cxx)
      g2 == Gcd(Abs(cxy), cyy)
      a1 == Abs(cxy) \div g1
      b1 == cxx \div g1
      a2 == Abs(cxy) \div g2
      b2 == cyy \div g2
      h1 == Gcd(a1, b2)
      h2 == Gcd(a2, b1)
  IN  IF cxx = 0 \/ cyy = 0 THEN NaN
      ELSE [t |-> "corr",
            sign |-> IF cxy < 0 THEN -1 ELSE IF cxy > 0 THEN 1 ELSE 0,
            num |-> (a1 \div h1) * (a2 \div h2),
            den |-> (b1 \div h2) * (b2 \div h1)]

\* abs(x[2]), the sort key of find_subject_correlations.
AbsCorr(c) == IF c.t = "nan" THEN NaN ELSE [t |-> "sq", num |-> c.num, den |-> c.den]

\* find_subject_correlations(), numpy being installed.
find_subject_correlations ==
  IF ~check_data_loaded THEN PyList(<<>>)
  ELSE LET scores == [s \in SubjectSet |->
                        [i \in 1..Len(_students) |-> _students[i].grades[s]]]
           n == Len(_subjects)
           \* the pairs (i, j), i < j, in the order of the two loops
           RECURSIVE Pairs(_, _)
           Pairs(i, j) ==
             IF i > n THEN <<>>
             ELSE IF j > n THEN Pairs(i + 1, i + 2)
             ELSE <<<<i, j>>>> \o Pairs(i, j + 1)
           pairs == Pairs(1, 2)
           correlations ==
             [k \in 1..Len(pairs) |->
                <<_subjects[pairs[k][1]], _subjects[pairs[k][2]],
                  corrcoef(scores[_subjects[pairs[k][1]]], scores[_subjects[pairs[k][2]]])>>]
       IN  PyList(sorted_reverse([k \in 1..Len(correlations) |->
                                    [k |-> AbsCorr(correlations[k][3]),
                                     e |-> correlations[k]]]))

\* validate_data(): False when unloaded; else whether every record has the
\* keys name, id and grades, a string name and id, and a grades dict of as
\* many entries as there are subjects.  A record of the store is a dict and
\* its grades are a dict.
IsStr(x) == x \in Seq(STRING)
validate_data ==
  IF ~check_data_loaded THEN PyBool(FALSE)
  ELSE PyBool(\A i \in 1..Len(_students) :
                /\ {"name", "id", "grades"} \subseteq DOMAIN _students[i]
                /\ IsStr(_students[i].name) /\ IsStr(_students[i].id)
                /\ Cardinality(DOMAIN _students[i].grades) = Len(_subjects))

\* get_grade_distribution_summary()
get_grade_distribution_summary ==
  IF ~check_data_loaded THEN EmptyDict
  ELSE PyDict([s \in SubjectSet |-> get_course_grade_distribution(PyStr(s))])

\* bool(x), the test of `if x` and `not x`.
Truthy(x) ==
  CASE x.t = "None" -> FALSE
    [] x.t = "bool" -> x.v
    [] x.t = "int" -> x.v # 0
    [] x.t = "float" -> x.num # 0
    [] x.t \in {"str", "list", "tuple"} -> x.v # <<>>
    [] x.t = "dict" -> DOMAIN x.v # {}

\* f"{x:.2f}": x to two decimals, to the nearest hundredth and at a tie to
\* the even one.  (Only a fraction of denominator 8, 40 or 200 is at a tie;
\* the averages of the model have denominators up to 5.)
Fmt2(x) ==
  LET a == Abs(Num(x))
      d == Den(x)
      q == (a * 100) \div d
      r == (a * 100) % d
      h == IF 2 * r > d THEN q + 1
           ELSE IF 2 * r = d THEN q + (q % 2)
           ELSE q
  IN  (IF Num(x) < 0 THEN <<"-">> ELSE <<>>)
      \o DecNat(h \div 100) \o <<".">> \o DecNat((h % 100) \div 10) \o DecNat(h % 10)

\* f"{x}" of a list, a dict or None: the text Python prints for the value,
\* kept as the value it is the text of.
Str(x) == [t |-> "str()", of |-> x]

\* generate_student_report(student_id): the text, as the pieces joined.
generate_student_report(student_id) ==
  IF ~check_data_loaded THEN None
  ELSE LET student_data == validate_student_id(student_id)
       IN  IF student_data = None THEN None
           ELSE LET info == get_student_info(student_id)
                    avg == calculate_student_average(student_id)
                    high == get_student_highest_score(student_id).v
                    low == get_student_lowest_score(student_id).v
                    status == IF Truthy(is_student_passing(student_id, PyInt(60)))
                              THEN "Passing" ELSE "Failing"
                    items == GradeItems(student_data)
                    letter(score) ==
                      LET g == convert_to_letter_grade(PyInt(score))
                      IN  IF g = None THEN Str(None) ELSE g.v
                IN  PyStr(info.v
                          \o <<"Average Score: ", Fmt2(avg), "\n",
                               "Highest Score: ", high[1], " (", Dec(high[2]), ")\n",
                               "Lowest Score: ", low[1], " (", Dec(low[2]), ")\n",
                               "Passing Status: ", status, "\n",
                               "Letter Grades:\n">>
                          \o [i \in 1..Len(items) |->
                                <<"  ", items[i][1], ": ", letter(items[i][2]), "\n">>]
                          \o <<"\n">>)

\* generate_course_report(course_name)
generate_course_report(course_name) ==
  IF ~check_data_loaded THEN None
  ELSE IF validate_course_name(course_name) = None THEN None
  ELSE LET stats == get_course_statistics(course_name)
       IN  IF stats = None THEN None
           ELSE PyStr(<<"Course: ", course_name.v, "\n",
                        "Average Score: ", Fmt2(stats.v.average), "\n",
                        "Highest Score: ", Fmt2(stats.v.highest), "\n",
                        "Lowest Score: ", Fmt2(stats.v.lowest), "\n",
                        "Distribution: ", Str(stats.v.distribution), "\n",
                        "Total Students: ", DecNat(Len(_students)), "\n">>)

\* generate_class_overview()
generate_class_overview ==
  IF ~check_data_loaded THEN None
  ELSE LET overall_stats == calculate_class_statistics
       IN  IF overall_stats = None THEN None
           ELSE PyStr(<<"Class Overview\n",
                        "Total Students: ", Dec(overall_stats.v.student_count.v), "\n",
                        "Top Performers: ", Str(overall_stats.v.top_performers), "\n",
                        "Struggling Students (<60): ",
                        Str(overall_stats.v.struggling_students), "\n">>
                      \o [i \in 1..Len(_subjects) |->
                            LET stats == overall_stats.v.subject_statistics[_subjects[i]]
                            IN  <<"Subject: ", _subjects[i], "\n",
                                  "  Average: ", Fmt2(stats.v.average), "\n",
                                  "  Highest: ", Fmt2(stats.v.highest), "\n",
                                  "  Lowest: ", Fmt2(stats.v.lowest), "\n",
                                  "  Distribution: ", Str(stats.v.distribution), "\n",
                                  "  Total Students: ", DecNat(Len(_students)), "\n">>])

\* filename.endswith('.txt')
EndsWithTxt(name) ==
  Len(name) >= 4 /\ SubSeq(name, Len(name) - 3, Len(name)) = <<".", "t", "x", "t">>

\* save_report_to_file(report_content, filename): whether the file is
\* written.  A filename that is no string raises, which the handler prints.
\* The engine keeps no trace of the file, and what the next load_data finds
\* is any file.
FileWritten(report_content, filename) ==
  /\ Truthy(report_content)
  /\ filename.t = "str"
  /\ EndsWithTxt(filename.v)
  /\ report_content.t = "str"

----------------------------------------------------------------------------
(* The arguments the model calls the queries with *)

IdArgs == {PyStr(<<"S", "1">>), PyStr(<<"S", "4">>), PyStr(<<"S", "9">>), PyInt(1)}
ThresholdArgs == {PyInt(-1), PyInt(0), PyInt(60), PyInt(90), PyInt(100), PyInt(150),
                  PyFloat(299, 5), PyStr(<<"6", "0">>)}
\* Scores: the band boundaries and their neighbours, the ends of the range
\* and beyond, floats next to a boundary, and values that are no numbers.
ScoreArgs ==
  {PyInt(i) : i \in {-1, 0, 1, 49, 50, 51, 59, 60, 61, 69, 70, 71,
                     79, 80, 81, 89, 90, 91, 99, 100, 101}}
  \cup {PyFloat(n, 5) : n \in {-1, 249, 299, 349, 399, 449, 450, 499, 501}}
  \cup {PyBool(TRUE), None, PyStr(<<"9", "0">>)}
CourseArgs == {PyStr(c) : c \in SubjectSet \cup {"math", "History", ""}} \cup {None}
CountArgs == {PyInt(-1), PyInt(0), PyInt(1), PyInt(2), PyInt(5), None}
FilenameArgs == {PyStr(<<"r", ".", "t", "x", "t">>), PyStr(<<"r", ".", "c", "s", "v">>), None}
ContentArgs == {PyStr(<<"r">>), PyStr(<<>>), PyInt(1), None}

----------------------------------------------------------------------------
(* The calls: each leaves the engine as it is and returns a value *)

\* A query that, besides returning its value, marks the engine unloaded.
QueryThatUnloads(name, args, value) ==
  /\ call' = <<name>> \o args
  /\ ret' = value
  /\ _loaded' = FALSE
  /\ UNCHANGED _students

Query(name, args, value) ==
  /\ call' = <<name>> \o args
  /\ ret' = value
  /\ UNCHANGED <<_students, _loaded>>

CalculateStudentAverage ==
  \E id \in IdArgs : Query("calculate_student_average", <<id>>, calculate_student_average(id))
GetStudentHighestScore ==
  \E id \in IdArgs : Query("get_student_highest_score", <<id>>, get_student_highest_score(id))
GetStudentLowestScore ==
  \E id \in IdArgs : Query("get_student_lowest_score", <<id>>, get_student_lowest_score(id))
IsStudentPassing ==
  \E id \in IdArgs, th \in ThresholdArgs :
    Query("is_student_passing", <<id, th>>, is_student_passing(id, th))
GetStudentInfo ==
  \E id \in IdArgs : Query("get_student_info", <<id>>, get_student_info(id))
\* The score is one of ScoreArgs, or the average the last call returned.
ConvertToLetterGrade ==
  \E score \in ScoreArgs \cup (IF call[1] = "calculate_student_average" THEN {ret} ELSE {}) :
    Query("convert_to_letter_grade", <<score>>, convert_to_letter_grade(score))

GetCourseScores ==
  \E c \in CourseArgs : Query("get_course_scores", <<c>>, get_course_scores(c))
CalculateCourseAverage ==
  \E c \in CourseArgs : Query("calculate_course_average", <<c>>, calculate_course_average(c))
FindCourseMedian ==
  \E c \in CourseArgs : Query("find_course_median", <<c>>, find_course_median(c))
GetCourseGradeDistribution ==
  \E c \in CourseArgs :
    Query("get_course_grade_distribution", <<c>>, get_course_grade_distribution(c))
GetCourseStatistics ==
  \E c \in CourseArgs : Query("get_course_statistics", <<c>>, get_course_statistics(c))
RankCoursesByDifficulty ==
  Query("rank_courses_by_difficulty", <<>>, rank_courses_by_difficulty)
RankStudentsByAverage ==
  Query("rank_students_by_average", <<>>, rank_students_by_average)
GetTopPerformers ==
  \E n \in CountArgs : Query("get_top_performers", <<n>>, get_top_performers(n))
GetStrugglingStudents ==
  \E th \in ThresholdArgs :
    Query("get_struggling_students", <<th>>, get_struggling_students(th))
CalculateClassStatistics ==
  Query("calculate_class_statistics", <<>>, calculate_class_statistics)
FindSubjectCorrelations ==
  Query("find_subject_correlations", <<>>, find_subject_correlations)
GetStudentCount == Query("get_student_count", <<>>, get_student_count)
ValidateData == Query("validate_data", <<>>, validate_data)

\* The students property: self._students.copy(), a new list of the same dicts.
students == PyList(_students)
Students == Query("students", <<>>, students)
ValidateStudentId ==
  \E id \in IdArgs : Query("validate_student_id", <<id>>, validate_student_id(id))
ValidateCourseName ==
  \E c \in CourseArgs : Query("validate_course_name", <<c>>, validate_course_name(c))
CheckDataLoaded == Query("check_data_loaded", <<>>, PyBool(check_data_loaded))

GetGradeDistributionSummary ==
  Query("get_grade_distribution_summary", <<>>, get_grade_distribution_summary)
GenerateStudentReport ==
  \E id \in IdArgs : Query("generate_student_report", <<id>>, generate_student_report(id))
GenerateCourseReport ==
  \E c \in CourseArgs : Query("generate_course_report", <<c>>, generate_course_report(c))
GenerateClassOverview ==
  Query("generate_class_overview", <<>>, generate_class_overview)
\* The content is one of ContentArgs, or the report the last call returned;
\* the call is recorded with whether it wrote the file.
SaveReportToFile ==
  \E filename \in FilenameArgs,
     report_content \in ContentArgs
       \cup (IF call[1] \in {"generate_student_report", "generate_course_report",
                             "generate_class_overview"} THEN {ret} ELSE {}) :
    Query("save_report_to_file",
          <<report_content, filename, FileWritten(report_content, filename)>>, None)
\* display_summary() prints what get_student_count and
\* calculate_class_statistics return, and returns None.
DisplaySummary == Query("display_summary", <<>>, None)

----------------------------------------------------------------------------
(* The caller and the value the last call handed out *)

\* The records of the store that the value just returned refers to, by their
\* place in the store.  The students property copies the list and not the
\* dicts in it; validate_student_id returns the dict it found; the list
\* comprehension of get_struggling_students collects the dicts of the store.
Aliased ==
  CASE call[1] = "students" -> [i \in 1..Len(_students) |-> i]
    [] call[1] = "validate_student_id" ->
         IF validate_student_id(call[2]) = None THEN <<>>
         ELSE <<CHOOSE i \in 1..Len(_students) :
                  /\ _students[i].id = call[2].v
                  /\ \A j \in 1..(i - 1) : _students[j].id # call[2].v>>
    [] call[1] = "get_struggling_students" ->
         IF ~check_data_loaded \/ ~InRange(call[2]) THEN <<>>
         ELSE LET RECURSIVE Below(_)
                  Below(i) ==
                    IF i > Len(_students) THEN <<>>
                    ELSE (IF Lt(calculate_student_average(PyStr(_students[i].id)), call[2])
                          THEN <<i>> ELSE <<>>) \o Below(i + 1)
              IN  Below(1)
    [] OTHER -> <<>>

\* The values a caller writes into a record it was handed; no line of a
\* file of the model holds them.  The caller goes on until MaxChanged records
\* of the store carry a value it wrote.
CallerGrade == 0
CallerText == <<"X">>
MaxChanged == 1
Changed ==
  {i \in 1..Len(_students) :
     \/ _students[i].id = CallerText
     \/ _students[i].name = CallerText
     \/ _students[i].grades["Math"] = CallerGrade}

\* The caller appends to the list it was handed, or removes its first
\* element: the list is the caller's own, made by copy() or by the
\* comprehension, so the store's list stays as it is.
CallerChangesList ==
  /\ call[1] \in {"students", "get_struggling_students"}
  /\ \E op \in {"append", "pop"} :
       /\ op = "pop" => ret.v # <<>>
       /\ call' = <<"caller", op>>
       /\ ret' = IF op = "append" THEN PyList(Append(ret.v, None)) ELSE PyList(Tail(ret.v))
  /\ UNCHANGED <<_students, _loaded>>

\* The caller assigns to the id, the name or a grade of a record it was
\* handed: the record is the dict the store holds.
CallerChangesRecord ==
  /\ call[1] \in {"students", "validate_student_id", "get_struggling_students"}
  /\ \E k \in 1..Len(Aliased) :
       LET i == Aliased[k]
       IN  /\ Cardinality(Changed \cup {i}) <= MaxChanged
           /\ \/ /\ _students' = [_students EXCEPT ![i].id = CallerText]
                 /\ call' = <<"caller", "id">>
              \/ /\ _students' = [_students EXCEPT ![i].name = CallerText]
                 /\ call' = <<"caller", "name">>
              \/ /\ _students' = [_students EXCEPT ![i].grades["Math"] = CallerGrade]
                 /\ call' = <<"caller", "grades">>
  /\ ret' = None
  /\ UNCHANGED _loaded

----------------------------------------------------------------------------

\* __init__
Init ==
  /\ _students = <<>>
  /\ _loaded = FALSE
  /\ call = <<"__init__">>
  /\ ret = None

\* The engine under any sequence of calls.
Next ==
  \/ LoadData
  \/ CalculateStudentAverage
  \/ GetStudentHighestScore
  \/ GetStudentLowestScore
  \/ IsStudentPassing
  \/ GetStudentInfo
  \/ ConvertToLetterGrade
  \/ GetCourseScores
  \/ CalculateCourseAverage
  \/ FindCourseMedian
  \/ GetCourseGradeDistribution
  \/ GetCourseStatistics
  \/ RankCoursesByDifficulty
  \/ RankStudentsByAverage
  \/ GetTopPerformers
  \/ GetStrugglingStudents
  \/ CalculateClassStatistics
  \/ FindSubjectCorrelations
  \/ GetStudentCount
  \/ ValidateData
  \/ Students
  \/ ValidateStudentId
  \/ ValidateCourseName
  \/ CheckDataLoaded
  \/ GetGradeDistributionSummary
  \/ GenerateStudentReport
  \/ GenerateCourseReport
  \/ GenerateClassOverview
  \/ SaveReportToFile
  \/ DisplaySummary

Spec == Init /\ [][Next]_vars

\* load_data alone: any sequence of load attempts.
SpecLoad == Init /\ [][LoadData]_vars

\* Course and student averages.
NextAverages ==
  \/ LoadData
  \/ GetCourseScores
  \/ CalculateCourseAverage
  \/ CalculateStudentAverage
SpecAverages == Init /\ [][NextAverages]_vars

\* Letter grades, of given scores and of the averages of students.
NextLetter ==
  \/ LoadData
  \/ CalculateStudentAverage
  \/ ConvertToLetterGrade
SpecLetter == Init /\ [][NextLetter]_vars

\* Passing and struggling students.
NextPassing ==
  \/ LoadData
  \/ IsStudentPassing
  \/ GetStrugglingStudents
SpecPassing == Init /\ [][NextPassing]_vars

\* The scores of a course and their median.
NextMedian ==
  \/ LoadData
  \/ GetCourseScores
  \/ FindCourseMedian
SpecMedian == Init /\ [][NextMedian]_vars

\* Loads and the integrity check.
NextValidate ==
  \/ LoadData
  \/ ValidateData
SpecValidate == Init /\ [][NextValidate]_vars

\* The calls that hand out records, and a caller that changes what it got.
NextCaller ==
  \/ LoadData
  \/ Students
  \/ ValidateStudentId
  \/ GetStrugglingStudents
  \/ CallerChangesList
  \/ CallerChangesRecord
SpecCaller == Init /\ [][NextCaller]_vars

----------------------------------------------------------------------------
(* Definitions the properties share *)

IsCall(name) == call[1] = name

\* A line that has exactly 7 comma-separated fields of which the last five
\* are integers, and the record it stands for.
IsIntegerText(s) == int(s).ok
WellFormed(line) ==
  LET parts == split(strip(line), ",")
  IN  Len(parts) = 7 /\ \A i \in 3..7 : IsIntegerText(parts[i])
RecordOf(line) ==
  LET parts == split(strip(line), ",")
  IN  [id |-> parts[1], name |-> parts[2],
       grades |-> [s \in SubjectSet |->
                     int(parts[CASE s = "Math" -> 3 [] s = "Physics" -> 4
                                 [] s = "Chemistry" -> 5 [] s = "Biology" -> 6
                                 [] s = "English" -> 7]).v]]
RECURSIVE RecordsOf(_)
RecordsOf(ls) ==
  IF ls = <<>> THEN <<>>
  ELSE (IF WellFormed(Head(ls)) THEN <<RecordOf(Head(ls))>> ELSE <<>>) \o RecordsOf(Tail(ls))

\* The mean of a record's own five grades.
OwnAverage(student) ==
  PyFloat(student.grades["Math"] + student.grades["Physics"] + student.grades["Chemistry"]
            + student.grades["Biology"] + student.grades["English"], 5)

----------------------------------------------------------------------------
(* C1 *)

\* C1: after every failed load_data attempt (the file is missing or cannot
\* be opened), also one that follows a successful load, Load State is false
\* and the record set is empty.
C1_FailedLoadLeavesNothing ==
  (IsCall("load_data") /\ call[2].kind \in {"missing", "denied"})
    => (~_loaded /\ _students = <<>>)

----------------------------------------------------------------------------
(* C2 *)

\* C2: for every readable file, whatever its lines (also none at all),
\* load_data ends with Load State true and with the record set equal, in
\* file order, to the records of the well-formed lines after the header.
C2_ReadableFileLoads ==
  (IsCall("load_data") /\ call[2].kind = "text")
    => /\ _loaded
       /\ _students = RecordsOf(IF call[2].lines = <<>> THEN <<>> ELSE Tail(call[2].lines))

----------------------------------------------------------------------------
(* C3 *)

\* C3: while Load State is false every query returns its empty result: the
\* per-student queries None, the list-valued queries the empty list, the
\* median and the statistics None, and the student count 0.
C3_UnloadedQueriesReturnEmpty ==
  ~_loaded =>
    /\ call[1] \in {"calculate_student_average", "get_student_highest_score",
                    "get_student_lowest_score", "is_student_passing", "get_student_info"}
         => ret = None
    /\ call[1] \in {"get_course_scores", "rank_courses_by_difficulty",
                    "rank_students_by_average", "get_top_performers",
                    "get_struggling_students", "find_subject_correlations"}
         => ret = PyList(<<>>)
    /\ call[1] \in {"find_course_median", "get_course_statistics",
                    "calculate_class_statistics"}
         => ret = None
    /\ IsCall("get_student_count") => ret = PyInt(0)

----------------------------------------------------------------------------
(* C4 *)

IsCatalogSubject(c) ==
  c.t = "str" /\ c.v \in {"Math", "Physics", "Chemistry", "Biology", "English"}

\* C4: calculate_course_average(subject) is the mean of
\* get_course_scores(subject) when the engine is loaded with at least one
\* record and the subject is in the catalog, and exactly 0 otherwise;
\* calculate_student_average(id) is None, never 0, when the engine is
\* unloaded or the id is no string or the id of no record.
C4_CourseAverageZeroStudentAverageNone ==
  /\ IsCall("calculate_course_average") =>
       IF _loaded /\ _students # <<>> /\ IsCatalogSubject(call[2])
       THEN LET scores == get_course_scores(call[2]).v
            IN  /\ Len(scores) = Len(_students)
                /\ ret.t = "float"
                /\ ret.num * Len(scores) = ret.den * SumInts(scores)
       ELSE ret = PyInt(0)
  /\ (/\ IsCall("calculate_student_average")
      /\ \/ ~_loaded
         \/ call[2].t # "str"
         \/ \A i \in 1..Len(_students) : _students[i].id # call[2].v)
       => ret = None

\* A course average over two loaded records, and it is not 0.
C4_Witness ==
  /\ IsCall("calculate_course_average")
  /\ _loaded /\ Len(_students) = 2 /\ IsCatalogSubject(call[2])
  /\ ret.t = "float" /\ ret.num # 0

----------------------------------------------------------------------------
(* C5 *)

IsNum(x, n) == NumEq(x, PyInt(n))
AtLeast(x, n) == ~Lt(x, PyInt(n))
Below(x, n) == Lt(x, PyInt(n))

\* C5: convert_to_letter_grade(score) is None for every score below 0 or
\* above 100; for a score in [0,100] it is A from 90, B from 80, C from 70,
\* D from 60, E from 50 and F below 50, each boundary in the higher band.
C5_LetterGradeBands ==
  (IsCall("convert_to_letter_grade") /\ IsNumber(call[2])) =>
    LET x == call[2]
    IN  /\ (Below(x, 0) \/ ~(Below(x, 100) \/ IsNum(x, 100))) => ret = None
        /\ (AtLeast(x, 90) /\ ~Lt(PyInt(100), x)) => ret = PyStr("A")
        /\ (AtLeast(x, 80) /\ Below(x, 90)) => ret = PyStr("B")
        /\ (AtLeast(x, 70) /\ Below(x, 80)) => ret = PyStr("C")
        /\ (AtLeast(x, 60) /\ Below(x, 70)) => ret = PyStr("D")
        /\ (AtLeast(x, 50) /\ Below(x, 60)) => ret = PyStr("E")
        /\ (AtLeast(x, 0) /\ Below(x, 50)) => ret = PyStr("F")

\* The boundary 90 was converted, to A.
C5_Witness ==
  IsCall("convert_to_letter_grade") /\ call[2] = PyInt(90) /\ ret = PyStr("A")

----------------------------------------------------------------------------
(* C6 *)

\* C6: for any loaded record set and any catalog subject,
\* get_course_grade_distribution(subject) has the six keys A..F, and its
\* counts add up to the number of loaded records.
C6_DistributionCountsEveryScore ==
  (IsCall("get_course_grade_distribution") /\ _loaded /\ IsCatalogSubject(call[2])) =>
    /\ ret.t = "dict"
    /\ DOMAIN ret.v = {"A", "B", "C", "D", "E", "F"}
    /\ ret.v["A"] + ret.v["B"] + ret.v["C"] + ret.v["D"] + ret.v["E"] + ret.v["F"]
         = Len(_students)

----------------------------------------------------------------------------
(* C7 *)

\* x is the average of the five grades of a record of the loaded store.
IsAverageOfLoadedRecord(x) ==
  _loaded /\ \E i \in 1..Len(_students) : x = OwnAverage(_students[i])

\* C7 as claimed: the letter grade of a loaded record's average is A when
\* the average is exactly 90, B when it is just below 90 (from 89 up), and F
\* when it is just below 60 (from 59 up, such as 59.8).
C7_AverageJustBelow60IsF ==
  (IsCall("convert_to_letter_grade") /\ IsAverageOfLoadedRecord(call[2])) =>
    /\ IsNum(call[2], 90) => ret = PyStr("A")
    /\ (AtLeast(call[2], 89) /\ Below(call[2], 90)) => ret = PyStr("B")
    /\ (AtLeast(call[2], 59) /\ Below(call[2], 60)) => ret = PyStr("F")

\* C7 as amended: the letter grade of a loaded record's average is A when
\* the average is exactly 90, B when it is just below 90, and E when it is
\* just below 60 (such as 59.8).
C7_AverageJustBelow60IsE ==
  (IsCall("convert_to_letter_grade") /\ IsAverageOfLoadedRecord(call[2])) =>
    /\ IsNum(call[2], 90) => ret = PyStr("A")
    /\ (AtLeast(call[2], 89) /\ Below(call[2], 90)) => ret = PyStr("B")
    /\ (AtLeast(call[2], 59) /\ Below(call[2], 60)) => ret = PyStr("E")

\* The average 59.8 of a loaded record was converted.
C7_Witness ==
  /\ IsCall("convert_to_letter_grade") /\ IsAverageOfLoadedRecord(call[2])
  /\ call[2] = PyFloat(299, 5) /\ ret = PyStr("E")

----------------------------------------------------------------------------
(* C8 *)

\* C8: on a loaded engine and for the id of a record, is_student_passing(id,
\* threshold) is true exactly when calculate_student_average(id) >= threshold,
\* for every threshold in [0,100], and is None for every threshold below 0
\* or above 100; get_struggling_students with such a threshold returns the
\* empty list.
C8_PassingIffAverageAtLeastThreshold ==
  /\ (/\ IsCall("is_student_passing") /\ _loaded /\ IsNumber(call[3])
      /\ call[2].t = "str"
      /\ \E i \in 1..Len(_students) : _students[i].id = call[2].v)
       => IF AtLeast(call[3], 0) /\ ~Lt(PyInt(100), call[3])
          THEN LET average == calculate_student_average(call[2])
               IN  /\ average.t = "float"
                   /\ ret = PyBool(average.num * Den(call[3])
                                     >= Num(call[3]) * average.den)
          ELSE ret = None
  /\ (/\ IsCall("get_struggling_students") /\ _loaded /\ IsNumber(call[2])
      /\ (Below(call[2], 0) \/ Lt(PyInt(100), call[2])))
       => ret = PyList(<<>>)

\* A student whose average equals the threshold was found passing.
C8_Witness ==
  /\ IsCall("is_student_passing") /\ _loaded
  /\ call[3] = PyInt(90)
  /\ calculate_student_average(call[2]) = PyFloat(450, 5)
  /\ ret = PyBool(TRUE)

----------------------------------------------------------------------------
(* C9 *)

\* The orders of n positions.
Orders(n) == {p \in [1..n -> 1..n] : \A i, j \in 1..n : p[i] = p[j] => i = j}

\* C9: on a loaded engine rank_students_by_average returns one (id, average)
\* entry per loaded record, each record with the mean of its own five
\* grades, by descending average, records of equal average in store order;
\* also when two lines of the file carry the same id.
C9_RankingPairsEachRecordWithOwnAverage ==
  (IsCall("rank_students_by_average") /\ _loaded) =>
    /\ ret.t = "list"
    /\ Len(ret.v) = Len(_students)
    /\ \E p \in Orders(Len(_students)) :
         /\ \A k \in 1..Len(_students) :
              /\ ret.v[k][1] = _students[p[k]].id
              /\ ret.v[k][2] = OwnAverage(_students[p[k]])
         /\ \A k \in 1..(Len(_students) - 1) :
              /\ ~Lt(OwnAverage(_students[p[k]]), OwnAverage(_students[p[k + 1]]))
              /\ NumEq(OwnAverage(_students[p[k]]), OwnAverage(_students[p[k + 1]]))
                   => p[k] < p[k + 1]

----------------------------------------------------------------------------
(* C10 *)

\* C10: for every threshold in [0,100], get_struggling_students(threshold) on
\* a loaded engine returns, in store order, exactly the records whose own
\* average is below the threshold; also when ids are repeated.
C10_StrugglingAreRecordsBelowThreshold ==
  (/\ IsCall("get_struggling_students") /\ _loaded /\ IsNumber(call[2])
   /\ AtLeast(call[2], 0) /\ ~Lt(PyInt(100), call[2]))
    => ret = PyList(SelectSeq(_students, LAMBDA r : Lt(OwnAverage(r), call[2])))

\* The scores the store holds for a subject, and the one at 1-based position
\* k when they are put in ascending order: fewer than k scores are below it
\* and at least k are not above it.
StoredScores(subject) == [i \in 1..Len(_students) |-> _students[i].grades[subject]]
AscendingAt(xs, k) ==
  CHOOSE v \in {xs[i] : i \in 1..Len(xs)} :
    /\ Cardinality({i \in 1..Len(xs) : xs[i] < v}) < k
    /\ k <= Cardinality({i \in 1..Len(xs) : xs[i] <= v})

C11_WitnessOdd ==
  /\ IsCall("find_course_median")
  /\ _loaded
  /\ call[2] = PyStr("Math")
  /\ StoredScores("Math") = <<70, 50, 60>>
  /\ ret = PyInt(60)

\* The unordered pairs of distinct catalog subjects: ten.
SubjectPairs == {p \in SUBSET SubjectSet : Cardinality(p) = 2}

\* abs(c) >= abs(d) for two correlation values; false when either is NaN, as
\* every comparison with NaN is.
AbsGe(c, d) == c.t = "corr" /\ d.t = "corr" /\ c.num * d.den >= d.num * c.den

\* C12: on a loaded engine find_subject_correlations returns ten entries, one
\* for each unordered pair of distinct catalog subjects, each entry's
\* absolute correlation at least the next entry's.
C12_TenPairsByDescendingStrength ==
  (IsCall("find_subject_correlations") /\ _loaded) =>
    /\ ret.t = "list"
    /\ Len(ret.v) = 10
    /\ {{ret.v[k][1], ret.v[k][2]} : k \in 1..Len(ret.v)} = SubjectPairs
    /\ \A k \in 1..(Len(ret.v) - 1) : AbsGe(ret.v[k][3], ret.v[k + 1][3])

\* C15: whenever the engine is loaded each record of the store has exactly
\* the keys id, name and grades, a string id, a string name and one integer
\* grade for each of Math, Physics, Chemistry, Biology and English and for
\* nothing else; validate_data() returns True when the engine is loaded and
\* False when it is not.
C15_LoadedRecordsAreWellTyped ==
  /\ _loaded =>
       \A i \in 1..Len(_students) :
         /\ DOMAIN _students[i] = {"id", "name", "grades"}
         /\ _students[i].id \in Seq(STRING)
         /\ _students[i].name \in Seq(STRING)
         /\ DOMAIN _students[i].grades = {"Math", "Physics", "Chemistry", "Biology", "English"}
         /\ \A s \in DOMAIN _students[i].grades : _students[i].grades[s] \in Int
  /\ IsCall("validate_data") => ret = PyBool(_loaded)

\* validate_data() has returned True on a store of two records or more.
C15_Witness ==
  /\ IsCall("validate_data")
  /\ _loaded
  /\ Len(_students) >= 2
  /\ ret = PyBool(TRUE)

\* C14: whatever a caller does to a value the students property,
\* validate_student_id or get_struggling_students returned (appending to or
\* removing from the list, changing a record's id, name or grades), the
\* records of the store stay as they are.
C14_CallerCannotChangeStore ==
  [][call'[1] = "caller" => _students' = _students]_vars

\* C13: every call but load_data leaves the records of the store and the
\* load state as they are, and a call repeated with the arguments of the
\* call before it returns what that call returned.  (The subject catalog is a
\* constant of the engine: nothing assigns it after __init__.)
C13_QueriesAreReadOnly ==
  [][call'[1] # "load_data" =>
       /\ _students' = _students
       /\ _loaded' = _loaded
       /\ call' = call => ret' = ret]_vars

\* A class overview has been generated from a loaded store of two records or
\* more.
C13_Witness ==
  /\ IsCall("generate_class_overview")
  /\ _loaded
  /\ Len(_students) >= 2
  /\ ret.t = "str"

====
